---- MODULE Spec2Model ----
(***************************************************************************)
(* State-machine model of handleMisubRequest                               *)
(* (src/functions/modules/subscription-handler.js).                        *)
(*                                                                         *)
(* One handler invocation is a frame on `stack`; the external converter    *)
(* re-enters the handler through the callback URL, which pushes a second   *)
(* frame.  Strings the code inspects character by character (path names,   *)
(* tokens, User-Agent, entry urls, converter backend and config) are       *)
(* sequences of one-character strings; strings that are only compared are  *)
(* TLA+ strings.                                                           *)
(***************************************************************************)
EXTENDS Integers, Sequences, FiniteSets, TLC

VARIABLES store, now, inbox, stack, notifications, fetches, composeCalls, callbackLog

vars == <<store, now, inbox, stack, notifications, fetches, composeCalls, callbackLog>>

(***************************************************************************)
(* Bounds of the model.                                                    *)
(***************************************************************************)
MaxNow == 3
MaxEntries == 4
MaxDepth == 2
MaxCallbacks == 1

(***************************************************************************)
(* JavaScript values.                                                      *)
(***************************************************************************)
\* null / undefined of a character string
Null == <<"NULL">>
\* null of a compared-only string (a query parameter that is not present)
None == "none"

Truthy(s) == s /= Null /\ s /= <<>>

IsSpace(c) == c \in {" ", "\t", "\n"}

RECURSIVE TrimStart(_)
TrimStart(s) == IF s /= <<>> /\ IsSpace(Head(s)) THEN TrimStart(Tail(s)) ELSE s

RECURSIVE TrimEnd(_)
TrimEnd(s) == IF s /= <<>> /\ IsSpace(s[Len(s)]) THEN TrimEnd(SubSeq(s, 1, Len(s) - 1)) ELSE s

\* String.prototype.trim
Trim(s) == TrimEnd(TrimStart(s))

\* s?.trim(): undefined when s is null or undefined
OptTrim(s) == IF s = Null THEN Null ELSE Trim(s)

\* String.prototype.startsWith
StartsWith(s, prefix) == Len(s) >= Len(prefix) /\ SubSeq(s, 1, Len(prefix)) = prefix

\* String.prototype.includes
Includes(s, part) == \E i \in 0..(Len(s) - Len(part)) : SubSeq(s, i + 1, i + Len(part)) = part

LowerChar(c) ==
    CASE c = "A" -> "a" [] c = "B" -> "b" [] c = "C" -> "c" [] c = "D" -> "d"
      [] c = "E" -> "e" [] c = "F" -> "f" [] c = "G" -> "g" [] c = "H" -> "h"
      [] c = "I" -> "i" [] c = "J" -> "j" [] c = "K" -> "k" [] c = "L" -> "l"
      [] c = "M" -> "m" [] c = "N" -> "n" [] c = "O" -> "o" [] c = "P" -> "p"
      [] c = "Q" -> "q" [] c = "R" -> "r" [] c = "S" -> "s" [] c = "T" -> "t"
      [] c = "U" -> "u" [] c = "V" -> "v" [] c = "W" -> "w" [] c = "X" -> "x"
      [] c = "Y" -> "y" [] c = "Z" -> "z" [] OTHER -> c

\* String.prototype.toLowerCase
ToLowerCase(s) == [i \in 1..Len(s) |-> LowerChar(s[i])]

RECURSIVE SplitAcc(_, _, _, _)
SplitAcc(s, sep, cur, acc) ==
    IF s = <<>> THEN Append(acc, cur)
    ELSE IF Head(s) = sep THEN SplitAcc(Tail(s), sep, <<>>, Append(acc, cur))
    ELSE SplitAcc(Tail(s), sep, Append(cur, Head(s)), acc)

\* String.prototype.split on a one-character separator
Split(s, sep) == SplitAcc(s, sep, <<>>, <<>>)

RECURSIVE Join(_, _)
\* Array.prototype.join
Join(parts, sep) ==
    IF parts = <<>> THEN <<>>
    ELSE IF Len(parts) = 1 THEN parts[1]
    ELSE parts[1] \o sep \o Join(Tail(parts), sep)

MinOf(S) == CHOOSE x \in S : \A y \in S : x <= y

Max(a, b) == IF a >= b THEN a ELSE b

(***************************************************************************)
(* Constants of the handler.                                               *)
(***************************************************************************)
Node_expired == <<"s", "s", ":", "/", "/", "e", "x", "p", "i", "r", "e", "d">>
Node_renew == <<"s", "s", ":", "/", "/", "r", "e", "n", "e", "w">>
Node_wechat == <<"s", "s", ":", "/", "/", "w", "e", "c", "h", "a", "t">>

\* the placeholder table: entries 1 and 2 are the same URI
EXPIRED_NODES == <<Node_expired, Node_expired, Node_renew, Node_wechat>>

SubPrefix == <<"/", "s", "u", "b", "/">>
HttpPrefix == <<"h", "t", "t", "p">>

supportedFormats == <<"clash", "singbox", "surge", "loon", "base64", "v2ray", "trojan">>

uaMapping == <<
    <<<<"f", "l", "y", "c", "l", "a", "s", "h">>, "clash">>,
    <<<<"m", "i", "h", "o", "m", "o">>, "clash">>,
    <<<<"c", "l", "a", "s", "h", ".", "m", "e", "t", "a">>, "clash">>,
    <<<<"c", "l", "a", "s", "h", "-", "v", "e", "r", "g", "e">>, "clash">>,
    <<<<"m", "e", "t", "a">>, "clash">>,
    <<<<"s", "t", "a", "s", "h">>, "clash">>,
    <<<<"n", "e", "k", "o", "r", "a", "y">>, "clash">>,
    <<<<"s", "i", "n", "g", "-", "b", "o", "x">>, "singbox">>,
    <<<<"s", "h", "a", "d", "o", "w", "r", "o", "c", "k", "e", "t">>, "base64">>,
    <<<<"v", "2", "r", "a", "y", "n">>, "base64">>,
    <<<<"v", "2", "r", "a", "y", "n", "g">>, "base64">>,
    <<<<"s", "u", "r", "g", "e">>, "surge">>,
    <<<<"l", "o", "o", "n">>, "loon">>,
    <<<<"q", "u", "a", "n", "t", "u", "m", "u", "l", "t", "%", "2", "0", "x">>, "quanx">>,
    <<<<"q", "u", "a", "n", "t", "u", "m", "u", "l", "t">>, "quanx">>,
    <<<<"c", "l", "a", "s", "h">>, "clash">> >>

UA_Default == <<"U", "n", "k", "n", "o", "w", "n">>

\* getCallbackToken(env): one value per deployment
CallbackToken == "cb-derived"

(***************************************************************************)
(* Responses and frames.                                                   *)
(***************************************************************************)
NoResponse == [status |-> 0, body |-> [kind |-> "none", text |-> <<>>]]

NoCallbackUrl == [pathname |-> <<>>, target |-> None, callback_token |-> None]

\* how the outbound fetch settled: not at all, with a response, or rejected
NoFetchResult == [kind |-> "none", status |-> 0, text |-> <<>>]

UpstreamResponse(status, text) == [kind |-> "response", status |-> status, text |-> text]

Rejection(message) == [kind |-> "rejected", status |-> 0, text |-> <<message>>]

\* the locals of one invocation of handleMisubRequest
NewFrame(req, id) ==
    [req |-> req, id |-> id, pc |-> "start",
     token |-> Null, profileIdentifier |-> Null,
     targetMisubs |-> <<>>, subName |-> "",
     effectiveSubConverter |-> Null, effectiveSubConfig |-> Null,
     isProfileExpired |-> FALSE, targetFormat |-> None,
     prependedContentForSubconverter |-> <<>>,
     combinedNodeList |-> <<>>,
     callbackUrl |-> NoCallbackUrl,
     callbacks |-> 0,
     fetchResult |-> NoFetchResult,
     response |-> NoResponse]

\* return new Response(text, { status })
Respond(f, status, kind, text) ==
    [f EXCEPT !.pc = "done",
              !.response = [status |-> status, body |-> [kind |-> kind, text |-> text]]]

(***************************************************************************)
(* Token Resolver (lines 50-61).                                           *)
(***************************************************************************)
\* url.pathname.replace(/^\/sub\//, '/')
StripSubPrefix(pathname) ==
    IF StartsWith(pathname, SubPrefix)
    THEN <<"/">> \o SubSeq(pathname, Len(SubPrefix) + 1, Len(pathname))
    ELSE pathname

pathSegments(pathname) ==
    SelectSeq(Split(StripSubPrefix(pathname), "/"), LAMBDA s : s /= <<>>)

ResolveToken(f) ==
    LET segs == pathSegments(f.req.pathname) IN
    [f EXCEPT !.pc = "authorize",
              !.token = IF Len(segs) > 0 THEN segs[1] ELSE f.req.query.token,
              !.profileIdentifier = IF Len(segs) > 1 THEN segs[2] ELSE Null]

(***************************************************************************)
(* Access Authorizer and Node-Set Selector (lines 63-135).                 *)
(***************************************************************************)
ProfileMatches(p, ident) ==
    (Truthy(p.customId) /\ p.customId = ident) \/ p.id = ident

\* allProfiles.find(...): <<>> when nothing matches, else <<first match>>
FindProfile(allProfiles, ident) ==
    LET idx == {i \in 1..Len(allProfiles) : ProfileMatches(allProfiles[i], ident)} IN
    IF idx = {} THEN <<>> ELSE <<allProfiles[MinOf(idx)]>>

\* variant: the instant of expiresAt itself already counts as expired
IsExpired_AtOrAfter(profile, t) == profile.expiresAt /= <<>> /\ t >= profile.expiresAt[1]

\* now > new Date(profile.expiresAt), guarded by if (profile.expiresAt)
IsExpired(profile, t) == profile.expiresAt /= <<>> /\ t > profile.expiresAt[1]

\* `expired-node-${index}`
ExpiredNodeIds == <<"expired-node-0", "expired-node-1", "expired-node-2", "expired-node-3">>

\* variant: only the first three rows of the table are substituted
ExpiredEntries_Three ==
    [i \in 1..3 |->
        [id |-> ExpiredNodeIds[i], url |-> EXPIRED_NODES[i],
         name |-> "expired", isExpiredNode |-> TRUE]]

ExpiredEntries ==
    [i \in 1..Len(EXPIRED_NODES) |->
        [id |-> ExpiredNodeIds[i], url |-> EXPIRED_NODES[i],
         name |-> "expired", isExpiredNode |-> TRUE]]

isSubscription(item) == StartsWith(item.url, HttpPrefix)

\* variant: membership in either list counts, whatever the kind of the entry
belongsToProfile_EitherList(item, profile) ==
    item.id \in (profile.subscriptions \cup profile.manualNodes)

belongsToProfile(item, profile) ==
    \/ (isSubscription(item) /\ item.id \in profile.subscriptions)
    \/ (~isSubscription(item) /\ item.id \in profile.manualNodes)

ProfileFilter(allMisubs, profile) ==
    SelectSeq(allMisubs, LAMBDA item : item.enabled /\ belongsToProfile(item, profile))

DirectFilter(allMisubs) == SelectSeq(allMisubs, LAMBDA s : s.enabled)

\* own?.trim() !== '' ? own : global
EffectiveOverride(own, global) == IF OptTrim(own) /= <<>> THEN own ELSE global

\* variant: a profile request is also let in by the direct token
AuthorizeProfile_EitherSecret(f, st, t) ==
    LET config == st.settings
        found == FindProfile(st.allProfiles, f.profileIdentifier)
    IN
    IF ~Truthy(f.token) \/ (f.token /= config.profileToken /\ f.token /= config.mytoken)
    THEN Respond(f, 403, "text", <<"Invalid Profile Token">>)
    ELSE IF found = <<>> \/ ~found[1].enabled
    THEN Respond(f, 404, "text", <<"Profile not found or disabled">>)
    ELSE LET profile == found[1]
             expired == IsExpired(profile, t)
         IN
         [f EXCEPT !.pc = "backend",
                   !.isProfileExpired = expired,
                   !.subName = profile.name,
                   !.targetMisubs = IF expired THEN ExpiredEntries
                                    ELSE ProfileFilter(st.allMisubs, profile),
                   !.effectiveSubConverter =
                       EffectiveOverride(profile.subConverter, config.subConverter),
                   !.effectiveSubConfig =
                       EffectiveOverride(profile.subConfig, config.subConfig)]

\* variant: the profile is looked up before the token is checked
AuthorizeProfile_LookupFirst(f, st, t) ==
    LET config == st.settings
        found == FindProfile(st.allProfiles, f.profileIdentifier)
    IN
    IF found = <<>> \/ ~found[1].enabled
    THEN Respond(f, 404, "text", <<"Profile not found or disabled">>)
    ELSE IF ~Truthy(f.token) \/ f.token /= config.profileToken
    THEN Respond(f, 403, "text", <<"Invalid Profile Token">>)
    ELSE LET profile == found[1]
             expired == IsExpired(profile, t)
         IN
         [f EXCEPT !.pc = "backend",
                   !.isProfileExpired = expired,
                   !.subName = profile.name,
                   !.targetMisubs = IF expired THEN ExpiredEntries
                                    ELSE ProfileFilter(st.allMisubs, profile),
                   !.effectiveSubConverter =
                       EffectiveOverride(profile.subConverter, config.subConverter),
                   !.effectiveSubConfig =
                       EffectiveOverride(profile.subConfig, config.subConfig)]

AuthorizeProfile(f, st, t) ==
    LET config == st.settings
        found == FindProfile(st.allProfiles, f.profileIdentifier)
    IN
    IF ~Truthy(f.token) \/ f.token /= config.profileToken
    THEN Respond(f, 403, "text", <<"Invalid Profile Token">>)
    ELSE IF found = <<>> \/ ~found[1].enabled
    THEN Respond(f, 404, "text", <<"Profile not found or disabled">>)
    ELSE LET profile == found[1]
             expired == IsExpired(profile, t)
         IN
         [f EXCEPT !.pc = "backend",
                   !.isProfileExpired = expired,
                   !.subName = profile.name,
                   !.targetMisubs = IF expired THEN ExpiredEntries
                                    ELSE ProfileFilter(st.allMisubs, profile),
                   !.effectiveSubConverter =
                       EffectiveOverride(profile.subConverter, config.subConverter),
                   !.effectiveSubConfig =
                       EffectiveOverride(profile.subConfig, config.subConfig)]

\* variant: the token check is waived for a request presenting the callback token
AuthorizeDirect_CallbackBypass(f, st) ==
    LET config == st.settings IN
    IF (~Truthy(f.token) \/ f.token /= config.mytoken)
       /\ f.req.query.callback_token /= CallbackToken
    THEN Respond(f, 403, "text", <<"Invalid Token">>)
    ELSE [f EXCEPT !.pc = "backend",
                   !.targetMisubs = DirectFilter(st.allMisubs),
                   !.subName = config.FileName,
                   !.effectiveSubConverter = config.subConverter,
                   !.effectiveSubConfig = config.subConfig]

AuthorizeDirect(f, st) ==
    LET config == st.settings IN
    IF ~Truthy(f.token) \/ f.token /= config.mytoken
    THEN Respond(f, 403, "text", <<"Invalid Token">>)
    ELSE [f EXCEPT !.pc = "backend",
                   !.targetMisubs = DirectFilter(st.allMisubs),
                   !.subName = config.FileName,
                   !.effectiveSubConverter = config.subConverter,
                   !.effectiveSubConfig = config.subConfig]

Authorize(f, st, t) ==
    IF Truthy(f.profileIdentifier) THEN AuthorizeProfile(f, st, t) ELSE AuthorizeDirect(f, st)

(***************************************************************************)
(* Backend check (lines 137-139).                                          *)
(***************************************************************************)
\* variant: only a missing backend is refused, a blank one is not
CheckBackend_MissingOnly(f) ==
    IF ~Truthy(f.effectiveSubConverter)
    THEN Respond(f, 500, "text", <<"Subconverter backend is not configured.">>)
    ELSE [f EXCEPT !.pc = "format"]

CheckBackend(f) ==
    IF ~Truthy(f.effectiveSubConverter) \/ Trim(f.effectiveSubConverter) = <<>>
    THEN Respond(f, 500, "text", <<"Subconverter backend is not configured.">>)
    ELSE [f EXCEPT !.pc = "format"]

(***************************************************************************)
(* Format Negotiator (lines 144-184).                                      *)
(***************************************************************************)
AtomTruthy(a) == a /= None /\ a /= ""

\* request.headers.get('User-Agent') || "Unknown"
userAgentHeader(req) == IF Truthy(req.userAgent) THEN req.userAgent ELSE UA_Default

NormalizeFlag(format) == IF format = "v2ray" \/ format = "trojan" THEN "base64" ELSE format

\* the loop over supportedFormats with url.searchParams.has(format)
FlagFormat(flags) ==
    LET idx == {i \in 1..Len(supportedFormats) : supportedFormats[i] \in flags} IN
    IF idx = {} THEN None ELSE NormalizeFlag(supportedFormats[MinOf(idx)])

\* variant: the loop does not stop at the first keyword found
UaFormat_LastMatch(header) ==
    LET ua == ToLowerCase(header)
        idx == {i \in 1..Len(uaMapping) : Includes(ua, uaMapping[i][1])}
    IN IF idx = {} THEN None ELSE uaMapping[CHOOSE i \in idx : \A j \in idx : j <= i][2]

\* the loop over uaMapping with ua.includes(keyword)
UaFormat(header) ==
    LET ua == ToLowerCase(header)
        idx == {i \in 1..Len(uaMapping) : Includes(ua, uaMapping[i][1])}
    IN IF idx = {} THEN None ELSE uaMapping[MinOf(idx)][2]

\* variant: the User-Agent table is consulted before the bare flags
ResolveFormat_UaFirst(req) ==
    LET byTarget == req.query.target
        byUa == IF AtomTruthy(byTarget) THEN byTarget ELSE UaFormat(userAgentHeader(req))
        byFlag == IF AtomTruthy(byUa) THEN byUa ELSE FlagFormat(req.query.flags)
    IN IF AtomTruthy(byFlag) THEN byFlag ELSE "base64"

ResolveFormat(req) ==
    LET byTarget == req.query.target
        byFlag == IF AtomTruthy(byTarget) THEN byTarget ELSE FlagFormat(req.query.flags)
        byUa == IF AtomTruthy(byFlag) THEN byFlag ELSE UaFormat(userAgentHeader(req))
    IN IF AtomTruthy(byUa) THEN byUa ELSE "base64"

NegotiateFormat(f) == [f EXCEPT !.pc = "notify", !.targetFormat = ResolveFormat(f.req)]

(***************************************************************************)
(* Access notification (lines 187-204).                                    *)
(***************************************************************************)
\* variant: only a callback_token equal to the derived token suppresses
SchedulesNotification_UnlessMatch(req) == req.query.callback_token /= CallbackToken

\* !url.searchParams.has('callback_token')
SchedulesNotification(req) == req.query.callback_token = None

Notification(f) ==
    [format |-> f.targetFormat, client |-> userAgentHeader(f.req),
     group |-> IF Truthy(f.profileIdentifier) THEN f.subName ELSE ""]

(***************************************************************************)
(* Traffic Summarizer (lines 206-234).                                     *)
(***************************************************************************)
\* variant: an over-used entry contributes its negative balance
Remaining_Signed(sub) ==
    IF sub.enabled /\ sub.userInfo /= <<>> /\ sub.userInfo[1].total > 0
    THEN sub.userInfo[1].total - (sub.userInfo[1].upload + sub.userInfo[1].download)
    ELSE 0

Remaining(sub) ==
    IF sub.enabled /\ sub.userInfo /= <<>> /\ sub.userInfo[1].total > 0
    THEN Max(0, sub.userInfo[1].total - (sub.userInfo[1].upload + sub.userInfo[1].download))
    ELSE 0

RECURSIVE totalRemainingBytes(_)
\* targetMisubs.reduce(..., 0)
totalRemainingBytes(subs) ==
    IF subs = <<>> THEN 0
    ELSE totalRemainingBytes(SubSeq(subs, 1, Len(subs) - 1)) + Remaining(subs[Len(subs)])

\* formatBytes(bytes) of utils.js
formatBytes(bytes) == <<"bytes", bytes>>

\* `trojan://00000000-0000-0000-0000-000000000000@127.0.0.1:443#${encodeURIComponent(fakeNodeName)}`
TrafficNode(bytes) == <<"trojan://traffic#", formatBytes(bytes)>>

SummarizeTraffic(f) ==
    [f EXCEPT !.pc = "compose",
              !.prependedContentForSubconverter =
                  IF f.isProfileExpired THEN <<>>
                  ELSE IF totalRemainingBytes(f.targetMisubs) > 0
                       THEN TrafficNode(totalRemainingBytes(f.targetMisubs))
                       ELSE <<>>]

(***************************************************************************)
(* Node-list composition (lines 236-243).                                  *)
(***************************************************************************)
PrefixSettings(f, st) ==
    IF Truthy(f.profileIdentifier)
    THEN LET found == FindProfile(st.allProfiles, f.profileIdentifier) IN
         IF found = <<>> THEN None ELSE found[1].prefixSettings
    ELSE None

ComposeArgs(f, st) ==
    [userAgent |-> userAgentHeader(f.req), entries |-> f.targetMisubs,
     prependedText |-> f.prependedContentForSubconverter,
     prefixSettings |-> PrefixSettings(f, st)]

\* generateCombinedNodeList of subscription.js: a text determined by its arguments
generateCombinedNodeList(args) ==
    <<"nodes", args.userAgent, args.entries, args.prependedText, args.prefixSettings>>

ComposeNodeList(f, st) ==
    [f EXCEPT !.pc = "output",
              !.combinedNodeList = generateCombinedNodeList(ComposeArgs(f, st))]

(***************************************************************************)
(* Response Composer, base64 branch (lines 250-272).                       *)
(***************************************************************************)
\* EXPIRED_NODES.join("\n") + "\n"
ExpiredText == Join(EXPIRED_NODES, <<"\n">>) \o <<"\n">>

\* btoa(unescape(encodeURIComponent(text)))
Base64(text) == <<"base64", text>>

\* variant: the composed list is encoded for an expired profile too
Base64Output_ComposedAlways(f) ==
    IF f.targetFormat = "base64"
    THEN Respond(f, 200, "base64", Base64(f.combinedNodeList))
    ELSE [f EXCEPT !.pc = "relay"]

Base64Output(f) ==
    IF f.targetFormat = "base64"
    THEN Respond(f, 200, "base64",
                 Base64(IF f.isProfileExpired THEN ExpiredText ELSE f.combinedNodeList))
    ELSE [f EXCEPT !.pc = "relay"]

(***************************************************************************)
(* Callback Relay (lines 280-295).                                         *)
(***************************************************************************)
callbackPath(f) ==
    IF Truthy(f.profileIdentifier)
    THEN <<"/">> \o f.token \o <<"/">> \o f.profileIdentifier
    ELSE <<"/">> \o f.token

\* variant: the callback URL carries no callback_token parameter
BuildCallbackUrl_NoToken(f) ==
    [pathname |-> callbackPath(f), target |-> "base64", callback_token |-> None]

\* variant: the callback URL asks for the negotiated format again
BuildCallbackUrl_SameTarget(f) ==
    [pathname |-> callbackPath(f), target |-> f.targetFormat, callback_token |-> CallbackToken]

\* `${url.protocol}//${url.host}${callbackPath}?target=base64&callback_token=${callbackToken}`
BuildCallbackUrl(f) ==
    [pathname |-> callbackPath(f), target |-> "base64", callback_token |-> CallbackToken]

\* variant: the presented callback token is not looked at
CallbackRelay_NoShortCircuit(f) ==
    [f EXCEPT !.pc = "request", !.callbackUrl = BuildCallbackUrl(f)]

CallbackRelay(f) ==
    IF f.req.query.callback_token = CallbackToken
    THEN Respond([f EXCEPT !.callbackUrl = BuildCallbackUrl(f)],
                 200, "base64", Base64(f.combinedNodeList))
    ELSE [f EXCEPT !.pc = "request", !.callbackUrl = BuildCallbackUrl(f)]

(***************************************************************************)
(* Outbound converter request (lines 297-314).                             *)
(***************************************************************************)
Undefined == <<"u", "n", "d", "e", "f", "i", "n", "e", "d">>

\* String(value), as URLSearchParams.set applies it
ToStr(s) == IF s = Null THEN Undefined ELSE s

SendsConfig(f) ==
    /\ f.targetFormat \in {"clash", "loon", "surge"}
    /\ OptTrim(f.effectiveSubConfig) /= <<>>

subconverterUrl(f) ==
    [backend |-> f.effectiveSubConverter,
     target |-> f.targetFormat,
     url |-> f.callbackUrl,
     config |-> IF SendsConfig(f) THEN <<ToStr(f.effectiveSubConfig)>> ELSE <<>>,
     new_name |-> "true"]

IssueFetch(f) == [f EXCEPT !.pc = "fetching"]

(***************************************************************************)
(* Converter response handling (lines 316-342).                            *)
(***************************************************************************)
\* Response.ok
IsOk(status) == status >= 200 /\ status <= 299

\* the catch block
BadGateway(f, message) ==
    Respond(f, 502, "error", <<"Error connecting to subconverter: ", message>>)

\* variant: the upstream status is relayed without the ok test
RelayResponse_PassThrough(f) ==
    LET r == f.fetchResult IN
    IF r.kind = "rejected" THEN BadGateway(f, r.text)
    ELSE Respond(f, r.status, "upstream", r.text)

\* the try block once the fetch has settled
RelayResponse(f) ==
    LET r == f.fetchResult IN
    IF r.kind = "rejected" THEN BadGateway(f, r.text)
    ELSE IF ~IsOk(r.status)
    THEN BadGateway(f, <<"Subconverter service returned status: ", r.status, ". Body: ", r.text>>)
    ELSE Respond(f, r.status, "upstream", r.text)

(***************************************************************************)
(* One synchronous stretch of the handler, by position.                    *)
(***************************************************************************)
Step(f, st, t) ==
    CASE f.pc = "start" -> ResolveToken(f)
      [] f.pc = "authorize" -> Authorize(f, st, t)
      [] f.pc = "backend" -> CheckBackend(f)
      [] f.pc = "format" -> NegotiateFormat(f)
      [] f.pc = "notify" -> [f EXCEPT !.pc = "traffic"]
      [] f.pc = "traffic" -> SummarizeTraffic(f)
      [] f.pc = "compose" -> ComposeNodeList(f, st)
      [] f.pc = "output" -> Base64Output(f)
      [] f.pc = "relay" -> CallbackRelay(f)
      [] f.pc = "request" -> IssueFetch(f)
      [] f.pc = "settled" -> RelayResponse(f)
      [] OTHER -> f

RECURSIVE RunHandler(_, _, _)
\* the handler run up to its response or its outbound fetch
RunHandler(f, st, t) ==
    IF f.pc \in {"done", "fetching"} THEN f ELSE RunHandler(Step(f, st, t), st, t)

(***************************************************************************)
(* Stored data and requests the model explores.                            *)
(***************************************************************************)
Tok_direct == <<"t", "k">>
Tok_profile == <<"p", "t">>
Tok_sub == <<"s", "u", "b">>
Tok_wrong == <<"x">>

Id_A == <<"A">>
CustomId_A == <<"c", "a">>
Id_B == <<"B">>
Id_missing == <<"n", "o">>

Conv_global == <<"g", ".", "c", "c">>
Conv_own == <<"o", ".", "c", "c">>
Blank == <<" ", " ">>
Cfg_global == <<"g", ".", "i", "n", "i">>
Cfg_own == <<"o", ".", "i", "n", "i">>

Url_http_a == <<"h", "t", "t", "p", ":", "/", "/", "a">>
Url_ss_b == <<"s", "s", ":", "/", "/", "b">>
Url_https_c == <<"h", "t", "t", "p", "s", ":", "/", "/", "c">>
Url_vmess_d == <<"v", "m", "e", "s", "s", ":", "/", "/", "d">>
Url_http_e == <<"h", "t", "t", "p", ":", "/", "/", "e">>
Url_trojan_f == <<"t", "r", "o", "j", "a", "n", ":", "/", "/", "f">>

UA_Shadowrocket == <<"S", "h", "a", "d", "o", "w", "r", "o", "c", "k", "e", "t", "/", "1", ".", "2">>
UA_SingboxClash == <<"S", "I", "N", "G", "-", "B", "O", "X", " ", "c", "l", "a", "s", "h">>
UA_ClashVerge == <<"c", "l", "a", "s", "h", "-", "v", "e", "r", "g", "e", "/", "1", ".", "3">>
UA_StashSurge == <<"S", "t", "a", "s", "h", " ", "S", "u", "r", "g", "e">>
UA_QuantumultX == <<"Q", "u", "a", "n", "t", "u", "m", "u", "l", "t", "%", "2", "0", "X">>
UA_V2rayNG == <<"v", "2", "r", "a", "y", "N", "G", "/", "1", ".", "8">>
UA_Curl == <<"c", "u", "r", "l", "/", "8", ".", "0">>
UA_Loon == <<"L", "o", "o", "n", "/", "3">>
UA_Converter == <<"s", "u", "b", "c", "o", "n", "v", "e", "r", "t", "e", "r", "/", "0", ".", "9">>

UserAgents ==
    {Null, UA_Shadowrocket, UA_SingboxClash, UA_ClashVerge, UA_StashSurge,
     UA_QuantumultX, UA_V2rayNG, UA_Curl, UA_Loon}

Entry(id, url, enabled, userInfo) ==
    [id |-> id, url |-> url, name |-> id, enabled |-> enabled, userInfo |-> userInfo]

UserInfo(upload, download, total) ==
    <<[upload |-> upload, download |-> download, total |-> total]>>

AllEntries ==
    <<Entry("e1", Url_http_a, TRUE, UserInfo(1, 1, 5)),
      Entry("e2", Url_ss_b, TRUE, <<>>),
      Entry("e3", Url_https_c, FALSE, UserInfo(0, 0, 4)),
      Entry("e4", Url_vmess_d, TRUE, UserInfo(3, 4, 5)),
      Entry("e5", Url_http_e, TRUE, UserInfo(0, 0, 0)),
      Entry("e6", Url_trojan_f, TRUE, UserInfo(0, 1, 3))>>

StoredList(k) == SubSeq(AllEntries, 1, IF k <= Len(AllEntries) THEN k ELSE Len(AllEntries))

FullList == StoredList(MaxEntries)

EntryLists == {StoredList(0), StoredList(2), FullList}

RemoteIds == {"e1", "e3", "e5"}
ManualIds == {"e2", "e4", "e6"}

Memberships ==
    {<<RemoteIds, ManualIds>>, <<ManualIds, RemoteIds>>,
     <<{"e1", "e2"}, {"e3", "e4"}>>, <<{}, {"e2", "e4"}>>, <<{}, {}>>}

Profile(enabled, expiresAt, members, subConverter, subConfig) ==
    [id |-> Id_A, customId |-> CustomId_A, name |-> "Group A", enabled |-> enabled,
     expiresAt |-> expiresAt, subscriptions |-> members[1], manualNodes |-> members[2],
     subConverter |-> subConverter, subConfig |-> subConfig, prefixSettings |-> "prefix-A"]

\* a second profile: disabled and long expired, without customId
OtherProfile ==
    [id |-> Id_B, customId |-> Null, name |-> "Group B", enabled |-> FALSE,
     expiresAt |-> <<0>>, subscriptions |-> {"e1"}, manualNodes |-> {"e2"},
     subConverter |-> Null, subConfig |-> Null, prefixSettings |-> None]

Settings(profileToken, subConverter, subConfig) ==
    [mytoken |-> Tok_direct, profileToken |-> profileToken,
     subConverter |-> subConverter, subConfig |-> subConfig, FileName |-> "MiSub"]

Store(settings, allMisubs, allProfiles) ==
    [settings |-> settings, allMisubs |-> allMisubs, allProfiles |-> allProfiles]

Query(token, target, flags, callback_token) ==
    [token |-> token, target |-> target, flags |-> flags, callback_token |-> callback_token]

Request(pathname, query, userAgent) ==
    [pathname |-> pathname, query |-> query, userAgent |-> userAgent]

UrlPath(segments) == <<"/">> \o Join(segments, <<"/">>)

Times == 1..MaxNow

Expiries == {<<>>, <<2>>}

DefaultStore ==
    Store(Settings(Tok_profile, Conv_global, Cfg_global), FullList,
          <<Profile(TRUE, <<2>>, <<RemoteIds, ManualIds>>, Conv_own, Cfg_own), OtherProfile>>)

\* authorization: every path shape against both profile tokens and profile states
AuthStores ==
    {Store(Settings(pt, Conv_global, Cfg_global), FullList, profiles) :
        pt \in {Tok_profile, Tok_sub},
        profiles \in {<<>>} \cup
            {<<Profile(en, ex, <<RemoteIds, ManualIds>>, Conv_own, Cfg_own), OtherProfile>> :
                en \in BOOLEAN, ex \in Expiries}}

AuthPaths ==
    {UrlPath(<<Tok_sub, Tok_direct>>), UrlPath(<<Tok_direct>>), UrlPath(<<Tok_sub, Tok_wrong>>),
     UrlPath(<<Tok_sub, Tok_profile, Id_A>>), UrlPath(<<Tok_profile, CustomId_A>>),
     UrlPath(<<Tok_sub, Tok_direct, Id_A>>), UrlPath(<<Tok_sub, Tok_profile, Id_missing>>),
     UrlPath(<<Tok_sub, Tok_profile, Id_B>>), UrlPath(<<Tok_sub, Tok_sub, Id_A>>),
     UrlPath(<<Tok_sub, Id_A>>), UrlPath(<<Tok_sub, Tok_sub>>),
     UrlPath(<<Tok_sub, Tok_wrong, Id_missing>>), UrlPath(<<Tok_sub, Tok_profile>>)}

\* paths without a token segment, with the token query parameter
QueryTokenPaths == {<<"/">>, UrlPath(<<Tok_sub>>), UrlPath(<<Tok_sub>>) \o <<"/">>}

AuthRequests ==
    {Request(p, Query(Null, t, {}, cb), Null) :
        p \in AuthPaths, t \in {"base64", "clash"}, cb \in {None, CallbackToken}}
    \cup
    {Request(p, Query(q, t, {}, cb), Null) :
        p \in QueryTokenPaths, q \in {Null, <<>>, Tok_direct, Tok_wrong, Tok_profile},
        t \in {"base64", "clash"}, cb \in {None, CallbackToken}}

\* converter backend and config: profile overrides against global settings
Overrides ==
    {<<Null, Null>>, <<<<>>, Blank>>, <<Blank, Cfg_own>>, <<Conv_own, <<>>>>, <<Conv_own, Cfg_own>>,
     <<Conv_own, Null>>}

GlobalBackends ==
    {<<Conv_global, Cfg_global>>, <<Conv_global, Null>>, <<Null, Cfg_global>>, <<Blank, Blank>>}

BackendStores ==
    {Store(Settings(Tok_profile, g[1], g[2]), FullList,
           <<Profile(TRUE, ex, <<RemoteIds, ManualIds>>, o[1], o[2]), OtherProfile>>) :
        g \in GlobalBackends, o \in Overrides, ex \in Expiries}

BackendRequests ==
    {Request(p, Query(Null, t, {}, cb), Null) :
        p \in {UrlPath(<<Tok_sub, Tok_direct>>), UrlPath(<<Tok_sub, Tok_profile, Id_A>>),
               UrlPath(<<Tok_sub, Tok_wrong>>), UrlPath(<<Tok_sub, Tok_wrong, Id_missing>>),
               UrlPath(<<Tok_sub, Tok_profile, Id_B>>)},
        t \in {"base64", "clash", "singbox"}, cb \in {None, CallbackToken, "stale"}}

\* selection and traffic: profile membership against stored lists
SelectionStores ==
    {Store(Settings(Tok_profile, Conv_global, Cfg_global), list,
           <<Profile(TRUE, ex, m, Conv_own, Cfg_own), OtherProfile>>) :
        list \in EntryLists, m \in Memberships, ex \in Expiries}

SelectionRequests ==
    {Request(p, Query(Null, t, {}, None), Null) :
        p \in {UrlPath(<<Tok_sub, Tok_direct>>), UrlPath(<<Tok_sub, Tok_profile, Id_A>>)},
        t \in {"base64", "clash"}}

\* format negotiation: target, bare flags, User-Agent, callback_token
FlagSets ==
    {{}, {"clash"}, {"v2ray"}, {"trojan", "loon"}, {"singbox", "surge"},
     {"base64", "clash"}, {"quanx"}}

FormatRequests ==
    {Request(UrlPath(<<Tok_sub, Tok_direct>>), Query(Null, t, fl, cb), ua) :
        t \in {None, "", "base64", "clash", "quanx"}, fl \in FlagSets,
        cb \in {None, "", "stale", CallbackToken}, ua \in UserAgents}

World(st, t, req) == [store |-> st, now |-> t, request |-> req]

Worlds ==
    {World(st, t, req) : st \in AuthStores, t \in Times, req \in AuthRequests}
    \cup {World(st, t, req) : st \in BackendStores, t \in Times, req \in BackendRequests}
    \cup {World(st, t, req) : st \in SelectionStores, t \in Times, req \in SelectionRequests}
    \cup {World(DefaultStore, 1, req) : req \in FormatRequests}

(***************************************************************************)
(* The external converter.                                                 *)
(***************************************************************************)
UpstreamStatuses == {200, 206, 404, 500}

UpstreamText(status, format) ==
    IF status >= 400 THEN <<"converter error">> ELSE <<"converter output", format>>

\* the request the converter makes for the url parameter it was given
CallbackRequest(callbackUrl) ==
    Request(callbackUrl.pathname,
            Query(Null, callbackUrl.target, {}, callbackUrl.callback_token),
            UA_Converter)

\* the same request presenting another callback_token value
WithCallbackToken(req, presented) ==
    [req EXCEPT !.query.callback_token = presented]

\* what the converter may present: the token of the URL it was given, or one
\* that no longer matches the derived token
PresentedTokens(callbackUrl) == {callbackUrl.callback_token, "stale"}

(***************************************************************************)
(* State machine.                                                          *)
(***************************************************************************)
Init ==
    \E w \in Worlds :
        /\ store = w.store
        /\ now = w.now
        /\ inbox = <<w.request>>
        /\ stack = <<>>
        /\ notifications = <<>>
        /\ fetches = <<>>
        /\ composeCalls = <<>>
        /\ callbackLog = <<>>

Top == stack[Len(stack)]

At(pc) == stack /= <<>> /\ Top.pc = pc

SetTop(f) == [stack EXCEPT ![Len(stack)] = f]

\* the client's request reaches the handler (lines 33-48)
Receive ==
    /\ inbox /= <<>>
    /\ stack = <<>>
    /\ stack' = <<NewFrame(Head(inbox), 1)>>
    /\ inbox' = Tail(inbox)
    /\ UNCHANGED <<store, now, notifications, fetches, composeCalls, callbackLog>>

DoResolveToken ==
    /\ At("start")
    /\ stack' = SetTop(ResolveToken(Top))
    /\ UNCHANGED <<store, now, inbox, notifications, fetches, composeCalls, callbackLog>>

DoAuthorize ==
    /\ At("authorize")
    /\ stack' = SetTop(Authorize(Top, store, now))
    /\ UNCHANGED <<store, now, inbox, notifications, fetches, composeCalls, callbackLog>>

DoCheckBackend ==
    /\ At("backend")
    /\ stack' = SetTop(CheckBackend(Top))
    /\ UNCHANGED <<store, now, inbox, notifications, fetches, composeCalls, callbackLog>>

DoNegotiateFormat ==
    /\ At("format")
    /\ stack' = SetTop(NegotiateFormat(Top))
    /\ UNCHANGED <<store, now, inbox, notifications, fetches, composeCalls, callbackLog>>

\* context.waitUntil(sendEnhancedTgNotification(...)) unless callback_token is present
DoNotify ==
    /\ At("notify")
    /\ stack' = SetTop(Step(Top, store, now))
    /\ notifications' =
           IF SchedulesNotification(Top.req)
           THEN Append(notifications, [frame |-> Top.id, data |-> Notification(Top)])
           ELSE notifications
    /\ UNCHANGED <<store, now, inbox, fetches, composeCalls, callbackLog>>

DoSummarizeTraffic ==
    /\ At("traffic")
    /\ stack' = SetTop(SummarizeTraffic(Top))
    /\ UNCHANGED <<store, now, inbox, notifications, fetches, composeCalls, callbackLog>>

DoCompose ==
    /\ At("compose")
    /\ stack' = SetTop(ComposeNodeList(Top, store))
    /\ composeCalls' = Append(composeCalls, [frame |-> Top.id, args |-> ComposeArgs(Top, store)])
    /\ UNCHANGED <<store, now, inbox, notifications, fetches, callbackLog>>

DoBase64Output ==
    /\ At("output")
    /\ stack' = SetTop(Base64Output(Top))
    /\ UNCHANGED <<store, now, inbox, notifications, fetches, composeCalls, callbackLog>>

DoCallbackRelay ==
    /\ At("relay")
    /\ stack' = SetTop(CallbackRelay(Top))
    /\ UNCHANGED <<store, now, inbox, notifications, fetches, composeCalls, callbackLog>>

\* fetch(subconverterUrl.toString(), ...) is issued
DoIssueFetch ==
    /\ At("request")
    /\ stack' = SetTop(IssueFetch(Top))
    /\ fetches' = Append(fetches, [frame |-> Top.id, url |-> subconverterUrl(Top)])
    /\ UNCHANGED <<store, now, inbox, notifications, composeCalls, callbackLog>>

\* time passes while the outbound fetch is in flight
Tick ==
    /\ At("fetching")
    /\ now < MaxNow
    /\ now' = now + 1
    /\ UNCHANGED <<store, inbox, stack, notifications, fetches, composeCalls, callbackLog>>

\* the converter fetches the callback URL: a second invocation of the handler
ConverterCallback ==
    /\ At("fetching")
    /\ Top.callbacks < MaxCallbacks
    /\ Len(stack) < MaxDepth
    /\ \E presented \in PresentedTokens(fetches[Len(fetches)].url.url) :
           stack' = Append(SetTop([Top EXCEPT !.callbacks = @ + 1]),
                           NewFrame(WithCallbackToken(
                                        CallbackRequest(fetches[Len(fetches)].url.url),
                                        presented),
                                    2 + Len(callbackLog)))
    /\ UNCHANGED <<store, now, inbox, notifications, fetches, composeCalls, callbackLog>>

\* the converter receives the response to its callback request
CallbackReturn ==
    /\ Len(stack) >= 2
    /\ Top.pc = "done"
    /\ callbackLog' = Append(callbackLog, [frame |-> Top.id, response |-> Top.response])
    /\ stack' = SubSeq(stack, 1, Len(stack) - 1)
    /\ UNCHANGED <<store, now, inbox, notifications, fetches, composeCalls>>

\* the outbound fetch resolves with the converter's response
ConverterReplies ==
    /\ At("fetching")
    /\ \E status \in UpstreamStatuses :
           stack' = SetTop([Top EXCEPT !.pc = "settled",
                                       !.fetchResult = UpstreamResponse(status, UpstreamText(status, Top.targetFormat))])
    /\ UNCHANGED <<store, now, inbox, notifications, fetches, composeCalls, callbackLog>>

\* the outbound fetch rejects
FetchFails ==
    /\ At("fetching")
    /\ stack' = SetTop([Top EXCEPT !.pc = "settled", !.fetchResult = Rejection("network error")])
    /\ UNCHANGED <<store, now, inbox, notifications, fetches, composeCalls, callbackLog>>

\* lines 316-342 once the awaited fetch has settled
DoRelayResponse ==
    /\ At("settled")
    /\ stack' = SetTop(RelayResponse(Top))
    /\ UNCHANGED <<store, now, inbox, notifications, fetches, composeCalls, callbackLog>>

Next ==
    \/ Receive
    \/ DoResolveToken
    \/ DoAuthorize
    \/ DoCheckBackend
    \/ DoNegotiateFormat
    \/ DoNotify
    \/ DoSummarizeTraffic
    \/ DoCompose
    \/ DoBase64Output
    \/ DoCallbackRelay
    \/ DoIssueFetch
    \/ Tick
    \/ ConverterCallback
    \/ CallbackReturn
    \/ ConverterReplies
    \/ FetchFails
    \/ DoRelayResponse

Spec == Init /\ [][Next]_vars

\* the steps the worker runtime takes on its own: a started handler runs to
\* its next await or to its response
HandlerStep ==
    \/ Receive
    \/ DoResolveToken
    \/ DoAuthorize
    \/ DoCheckBackend
    \/ DoNegotiateFormat
    \/ DoNotify
    \/ DoSummarizeTraffic
    \/ DoCompose
    \/ DoBase64Output
    \/ DoCallbackRelay
    \/ DoIssueFetch
    \/ CallbackReturn
    \/ DoRelayResponse

\* the awaited fetch settles: it resolves or rejects
FetchSettles == ConverterReplies \/ FetchFails

\* the handler keeps running and the converter answers
FairSpec == Spec /\ WF_vars(HandlerStep) /\ WF_vars(FetchSettles)

(***************************************************************************)
(* Properties.                                                             *)
(***************************************************************************)
Frames == {stack[i] : i \in 1..Len(stack)}

\* the authorization step of the frame has run
Resolved(f) == f.pc \notin {"start", "authorize"}

Status(f) == IF f.pc = "done" THEN f.response.status ELSE 0

\* indexes of the stored profiles whose id or customId is the identifier
MatchingProfiles(ident) ==
    {i \in 1..Len(store.allProfiles) :
        store.allProfiles[i].id = ident \/ store.allProfiles[i].customId = ident}

\* C1: a request without profile identifier whose token is missing, empty or
\* not the configured direct token is answered 403, whatever its target,
\* flags and callback_token are.
C1_DirectBadTokenForbidden ==
    \A f \in Frames :
        (/\ Resolved(f)
         /\ f.profileIdentifier = Null
         /\ (f.token = Null \/ f.token = <<>> \/ f.token /= store.settings.mytoken))
        => Status(f) = 403

C1_Witness ==
    \E f \in Frames :
        /\ f.pc = "done"
        /\ f.profileIdentifier = Null
        /\ f.token = Tok_wrong
        /\ f.req.query.target = "clash"
        /\ f.req.query.callback_token = CallbackToken
        /\ f.response.status = 403

\* C2: with a profile identifier, a token other than the profile token is
\* answered 403 (the direct token included, whether or not the profile
\* exists); with the profile token, an identifier that matches no profile or
\* only a disabled one is answered 404.  The profile token does not open the
\* direct path either.
C2_ProfileAuthorization ==
    \A f \in Frames :
        Resolved(f) =>
            /\ (Truthy(f.profileIdentifier) /\ f.token /= store.settings.profileToken)
                   => Status(f) = 403
            /\ (/\ Truthy(f.profileIdentifier)
                /\ f.token = store.settings.profileToken
                /\ \A i \in MatchingProfiles(f.profileIdentifier) :
                       ~store.allProfiles[i].enabled)
                   => Status(f) = 404
            /\ (/\ f.profileIdentifier = Null
                /\ f.token = store.settings.profileToken
                /\ f.token /= store.settings.mytoken)
                   => Status(f) = 403

C2_Witness ==
    \E f \in Frames :
        /\ f.pc = "done"
        /\ f.profileIdentifier = Id_A
        /\ f.token = store.settings.profileToken
        /\ MatchingProfiles(Id_A) /= {}
        /\ \A i \in MatchingProfiles(Id_A) : ~store.allProfiles[i].enabled
        /\ f.response.status = 404

\* the first stored profile the identifier names is past its expiresAt
ExpiredNow(f) ==
    /\ Truthy(f.profileIdentifier)
    /\ MatchingProfiles(f.profileIdentifier) /= {}
    /\ LET p == store.allProfiles[MinOf(MatchingProfiles(f.profileIdentifier))] IN
           p.expiresAt /= <<>> /\ now > p.expiresAt[1]

LastCompose == composeCalls[Len(composeCalls)]

AuthorizedProfile(f) ==
    /\ Resolved(f)
    /\ Truthy(f.profileIdentifier)
    /\ f.token = store.settings.profileToken
    /\ MatchingProfiles(f.profileIdentifier) /= {}
    /\ store.allProfiles[MinOf(MatchingProfiles(f.profileIdentifier))].enabled

ProfileOf(f) == store.allProfiles[MinOf(MatchingProfiles(f.profileIdentifier))]

PresentNonBlank(value) == value /= Null /\ Trim(value) /= <<>>

\* C4: for an authorized, enabled profile the effective converter backend is
\* the profile's subConverter when that is present and non-blank after
\* trimming and the global one otherwise (also when the profile has no
\* subConverter field); the effective config string resolves the same way.
C4_OverrideElseGlobal ==
    \A f \in Frames :
        AuthorizedProfile(f) =>
            /\ f.effectiveSubConverter =
                   IF PresentNonBlank(ProfileOf(f).subConverter)
                   THEN ProfileOf(f).subConverter ELSE store.settings.subConverter
            /\ f.effectiveSubConfig =
                   IF PresentNonBlank(ProfileOf(f).subConfig)
                   THEN ProfileOf(f).subConfig ELSE store.settings.subConfig

RecognizedFlags == {"clash", "singbox", "surge", "loon", "base64", "v2ray", "trojan"}

FlagMeaning(flag) == IF flag \in {"v2ray", "trojan"} THEN "base64" ELSE flag

\* formats of the table rows whose keyword occurs in the lower-cased User-Agent
KeywordFormats(req) ==
    {uaMapping[i][2] :
        i \in {j \in 1..Len(uaMapping) :
                  Includes(ToLowerCase(userAgentHeader(req)), uaMapping[j][1])}}

\* C5: a non-empty target parameter is the negotiated format verbatim; without
\* it a recognized bare flag decides, v2ray and trojan meaning base64; without
\* either the User-Agent keyword table decides; without any of them the
\* format is base64.
C5_FormatPrecedence ==
    \A f \in Frames :
        f.targetFormat /= None =>
            LET q == f.req.query
                noTarget == q.target \in {None, ""}
                flags == q.flags \cap RecognizedFlags
            IN
            /\ ~noTarget => f.targetFormat = q.target
            /\ (noTarget /\ flags /= {}) =>
                   f.targetFormat \in {FlagMeaning(flag) : flag \in flags}
            /\ (noTarget /\ flags = {} /\ KeywordFormats(f.req) /= {}) =>
                   f.targetFormat \in KeywordFormats(f.req)
            /\ (noTarget /\ flags = {} /\ KeywordFormats(f.req) = {}) =>
                   f.targetFormat = "base64"

C5_Witness ==
    \E f \in Frames :
        /\ f.req.query.target = None
        /\ f.req.query.flags = {"v2ray"}
        /\ f.req.userAgent = UA_ClashVerge
        /\ f.targetFormat = "base64"

\* C6: a request that carries a callback_token parameter, matching, stale or
\* empty, schedules no access notification, whatever its response is; the
\* converter's re-entry always carries one, so only the client's frame can.
C6_CallbackTokenSuppressesNotification ==
    /\ \A f \in Frames :
           f.req.query.callback_token /= None =>
               \A i \in 1..Len(notifications) : notifications[i].frame /= f.id
    /\ \A i \in 1..Len(notifications) : notifications[i].frame = 1

C6_Witness ==
    /\ Len(stack) = 1
    /\ Top.pc = "done"
    /\ Top.req.query.callback_token = "stale"
    /\ Top.response.status = 502
    /\ notifications = <<>>

\* a direct request GET /sub/{token}[/{profileIdentifier}]?target=base64
DirectBase64Request(token, profileIdentifier, userAgent) ==
    Request(UrlPath(IF Truthy(profileIdentifier)
                    THEN <<Tok_sub, token, profileIdentifier>>
                    ELSE <<Tok_sub, token>>),
            Query(Null, "base64", {}, None), userAgent)

\* the frame answering the converter's fetch of the callback URL has finished
CallbackAnswered ==
    /\ Len(stack) >= 2
    /\ stack[1].pc = "fetching"
    /\ stack[2].pc = "done"
    /\ stack[2].req.query.callback_token = CallbackToken

\* C7: the converter's fetch of the callback URL built for (T, P), carrying
\* the derived callback token, resolves to the same token and profile
\* identifier and is answered with the body a direct base64 request for
\* (T, P) gets over the same stored data at the same time.
C7_CallbackRoundTrip ==
    CallbackAnswered =>
        LET direct == RunHandler(
                          NewFrame(DirectBase64Request(stack[1].token,
                                                       stack[1].profileIdentifier,
                                                       stack[2].req.userAgent), 0),
                          store, now)
        IN
        /\ stack[2].token = stack[1].token
        /\ stack[2].profileIdentifier = stack[1].profileIdentifier
        /\ stack[2].response = direct.response
        /\ stack[2].response.status = 200

FetchesBy(f) == {i \in 1..Len(fetches) : fetches[i].frame = f.id}

SuccessStatus(status) == status \in 200..299

Authorized(f) == Resolved(f) /\ Status(f) \notin {403, 404}

\* C9: an authorized request whose resolved backend is absent or blank after
\* trimming is answered 500 for every format, and on its behalf nothing is
\* notified, composed or fetched.
C9_BlankBackendIs500 ==
    \A f \in Frames :
        (/\ Authorized(f)
         /\ f.pc /= "backend"
         /\ ~PresentNonBlank(f.effectiveSubConverter))
        => /\ Status(f) = 500
           /\ \A i \in 1..Len(notifications) : notifications[i].frame /= f.id
           /\ \A i \in 1..Len(composeCalls) : composeCalls[i].frame /= f.id
           /\ FetchesBy(f) = {}

C9_Witness ==
    \E f \in Frames :
        /\ f.pc = "done"
        /\ f.req.query.target = "base64"
        /\ f.effectiveSubConverter = Blank
        /\ f.response.status = 500
        /\ notifications = <<>>
        /\ composeCalls = <<>>

HasHttpScheme(url) ==
    Len(url) >= 4 /\ url[1] = "h" /\ url[2] = "t" /\ url[3] = "t" /\ url[4] = "p"

PositionIn(list, entry) == MinOf({i \in 1..Len(list) : list[i] = entry})

\* C10: for an authorized, enabled, non-expired profile a stored entry is
\* selected iff it is enabled and (remote and listed in subscriptions, or
\* manual and listed in manualNodes); the selection keeps the stored order.
C10_ProfileSelection ==
    \A f \in Frames :
        (AuthorizedProfile(f) /\ ~ExpiredNow(f)) =>
            LET all == store.allMisubs
                sel == f.targetMisubs
                p == ProfileOf(f)
            IN
            /\ \A i \in 1..Len(all) :
                   (\E j \in 1..Len(sel) : sel[j] = all[i]) <=>
                       /\ all[i].enabled
                       /\ \/ HasHttpScheme(all[i].url) /\ all[i].id \in p.subscriptions
                          \/ ~HasHttpScheme(all[i].url) /\ all[i].id \in p.manualNodes
            /\ \A j \in 1..Len(sel) : \E i \in 1..Len(all) : all[i] = sel[j]
            /\ \A j, k \in 1..Len(sel) :
                   j < k => PositionIn(all, sel[j]) < PositionIn(all, sel[k])

C10_Witness ==
    \E f \in Frames :
        /\ AuthorizedProfile(f)
        /\ ~ExpiredNow(f)
        /\ ProfileOf(f).subscriptions = {"e1", "e2"}
        /\ ProfileOf(f).manualNodes = {"e3", "e4"}
        /\ Len(store.allMisubs) >= 4
        /\ Len(f.targetMisubs) = 2
        /\ f.targetMisubs[1].id = "e1"
        /\ f.targetMisubs[2].id = "e4"

FrameById(id) == CHOOSE f \in Frames : f.id = id

\* C11: every outbound converter request carries target = the negotiated
\* format, url = the callback URL and new_name=true, and a config parameter
\* iff the format is clash, loon or surge and the effective config string is
\* present and non-blank.
C11_OutboundRequestParameters ==
    \A i \in 1..Len(fetches) :
        \A f \in Frames :
            f.id = fetches[i].frame =>
                LET u == fetches[i].url IN
                /\ u.target = f.targetFormat
                /\ u.url.pathname =
                       (IF Truthy(f.profileIdentifier)
                        THEN <<"/">> \o f.token \o <<"/">> \o f.profileIdentifier
                        ELSE <<"/">> \o f.token)
                /\ u.url.target = "base64"
                /\ u.url.callback_token = CallbackToken
                /\ u.new_name = "true"
                /\ u.config /= <<>> <=>
                       /\ f.targetFormat \in {"clash", "loon", "surge"}
                       /\ PresentNonBlank(f.effectiveSubConfig)
                /\ u.config /= <<>> => u.config[1] = f.effectiveSubConfig

\* "ss://...\nss://...\nss://...\nss://...\n" of the placeholder table
PlaceholderText ==
    Node_expired \o <<"\n">> \o Node_expired \o <<"\n">> \o Node_renew \o <<"\n">>
        \o Node_wechat \o <<"\n">>

\* the text generateCombinedNodeList returned to the frame
ComposedFor(f) ==
    LET calls == {i \in 1..Len(composeCalls) : composeCalls[i].frame = f.id} IN
    generateCombinedNodeList(composeCalls[MinOf(calls)].args)

\* the frame ended in the base64 branch: backend configured, format base64
AnsweredAsBase64(f) ==
    /\ f.pc = "done"
    /\ Authorized(f)
    /\ PresentNonBlank(f.effectiveSubConverter)
    /\ f.targetFormat = "base64"

BeforeFetch(f) ==
    f.pc \in {"backend", "format", "notify", "traffic", "compose", "output", "relay", "request"}

\* C13: an authorized, enabled profile is treated as expired iff it has an
\* expiresAt and the current time is strictly greater; at expiresAt itself
\* and before it is active, without expiresAt never expired.  Expiry alone
\* never produces an error status.
C13_StrictExpiry ==
    \A f \in Frames :
        AuthorizedProfile(f) =>
            /\ BeforeFetch(f) =>
                   (f.isProfileExpired <=>
                        (ProfileOf(f).expiresAt /= <<>> /\ now > ProfileOf(f).expiresAt[1]))
            /\ ProfileOf(f).expiresAt = <<>> => ~f.isProfileExpired
            /\ (/\ f.isProfileExpired
                /\ f.pc = "done"
                /\ PresentNonBlank(f.effectiveSubConverter)
                /\ f.fetchResult.kind = "none")
                   => f.response.status = 200

C13_Witness ==
    \E f \in Frames :
        /\ AuthorizedProfile(f)
        /\ BeforeFetch(f)
        /\ ProfileOf(f).expiresAt = <<2>>
        /\ now = 2
        /\ ~f.isProfileExpired
        /\ Len(f.targetMisubs) > 0
        /\ f.targetMisubs[1].id = "e1"

\* the frame has run the traffic summarizer
PastTraffic(f) ==
    \/ f.pc \in {"compose", "output", "relay", "request", "fetching", "settled"}
    \/ f.pc = "done" /\ f.response.status \notin {403, 404, 500}

\* max(0, total - (upload + download)) of an enabled entry with total > 0
QuotaLeft(entry) ==
    IF entry.enabled /\ entry.userInfo /= <<>> /\ entry.userInfo[1].total > 0
    THEN LET left == entry.userInfo[1].total
                         - (entry.userInfo[1].upload + entry.userInfo[1].download)
         IN IF left > 0 THEN left ELSE 0
    ELSE 0

RECURSIVE QuotaSum(_)
QuotaSum(entries) ==
    IF entries = <<>> THEN 0 ELSE QuotaLeft(Head(entries)) + QuotaSum(Tail(entries))

\* C14: for a non-expired request the aggregated remaining traffic is the sum
\* of max(0, total - used) over the selected entries with a positive total:
\* never negative, never decreased by a further entry, and the traffic node is
\* prepended iff the sum is strictly positive.
C14_TrafficSum ==
    \A f \in Frames :
        (PastTraffic(f) /\ ~f.isProfileExpired) =>
            LET t == f.targetMisubs IN
            /\ totalRemainingBytes(t) = QuotaSum(t)
            /\ totalRemainingBytes(t) >= 0
            /\ \A k \in 1..Len(t) :
                   totalRemainingBytes(SubSeq(t, 1, k))
                       >= totalRemainingBytes(SubSeq(t, 1, k - 1))
            /\ f.prependedContentForSubconverter /= <<>> <=> QuotaSum(t) > 0
            /\ QuotaSum(t) > 0 =>
                   f.prependedContentForSubconverter
                       = <<"trojan://traffic#", <<"bytes", QuotaSum(t)>>>>

C14_Witness ==
    \E f \in Frames :
        /\ PastTraffic(f)
        /\ ~f.isProfileExpired
        /\ \E k \in 1..Len(f.targetMisubs) :
               LET u == f.targetMisubs[k].userInfo IN
               u /= <<>> /\ u[1].total > 0 /\ u[1].upload + u[1].download > u[1].total
        /\ QuotaSum(f.targetMisubs) = 0
        /\ f.prependedContentForSubconverter = <<>>

\* C15: GET /sub?token=T takes its access token from the token query
\* parameter, is handled in direct-token mode and is authorized iff T equals
\* the configured direct token.
C15_BareSubPathUsesQueryToken ==
    \A f \in Frames :
        (f.req.pathname = <<"/", "s", "u", "b">> /\ Resolved(f)) =>
            /\ f.token = f.req.query.token
            /\ ~Truthy(f.profileIdentifier)
            /\ f.pc = "done" =>
                   (f.response.status /= 403 <=> f.req.query.token = store.settings.mytoken)

\* an authorized request presenting the derived callback token
PresentsCallbackToken(f) == Authorized(f) /\ f.req.query.callback_token = CallbackToken

\* C16 as stated: an authorized request whose callback_token equals the
\* derived token never issues an outbound converter request and is answered
\* 200 with the base64-encoded composed node list, for any negotiated format.
C16_CallbackAlwaysComposedList ==
    \A f \in Frames :
        PresentsCallbackToken(f) =>
            /\ FetchesBy(f) = {}
            /\ f.pc = "done" =>
                   /\ f.response.status = 200
                   /\ f.response.body.text = Base64(ComposedFor(f))

\* C16, amended: an authorized request whose callback_token equals the
\* derived token never issues an outbound converter request; with a non-blank
\* resolved backend it is answered 200 with the base64-encoded composed node
\* list, except that an expired profile with negotiated format base64 gets
\* the base64-encoded placeholder text; with a blank or absent backend it is
\* answered 500.
C16_CallbackShortCircuit ==
    \A f \in Frames :
        PresentsCallbackToken(f) =>
            /\ FetchesBy(f) = {}
            /\ f.pc \notin {"request", "fetching", "settled"}
            /\ f.pc = "done" =>
                   IF PresentNonBlank(f.effectiveSubConverter)
                   THEN /\ f.response.status = 200
                        /\ f.response.body.text =
                               Base64(IF ExpiredNow(f) /\ f.targetFormat = "base64"
                                      THEN PlaceholderText ELSE ComposedFor(f))
                   ELSE f.response.status = 500

C16_Witness ==
    \E f \in Frames :
        /\ PresentsCallbackToken(f)
        /\ f.pc = "done"
        /\ f.targetFormat = "clash"
        /\ f.response.status = 200
        /\ f.response.body.text = Base64(ComposedFor(f))
        /\ FetchesBy(f) = {}

\* the client's request has its response
ClientAnswered == stack /= <<>> /\ stack[1].pc = "done"

\* at most one outbound fetch, issued for the client's request, and the
\* handler answering the converter's callback request (target=base64) never
\* gets as far as the callback relay or an outbound fetch
NoRecursion ==
    /\ Len(fetches) <= 1
    /\ \A i \in 1..Len(fetches) : fetches[i].frame = 1
    /\ \A i \in 1..Len(fetches) : fetches[i].url.url.target = "base64"
    /\ \A f \in Frames :
           f.id /= 1 =>
               /\ f.req.query.target = "base64"
               /\ f.pc \notin {"relay", "request", "fetching", "settled"}
               /\ FetchesBy(f) = {}

\* C17: a client request causes at most one outbound converter fetch, the
\* converter's fetch of the callback URL is answered without any further
\* outbound fetch whether or not its callback token matches, and, the
\* converter answering, every client request eventually has its response.
C17_TerminatesWithoutRecursion == []NoRecursion /\ <>ClientAnswered

C17_Witness ==
    /\ Len(stack) = 2
    /\ stack[1].pc = "fetching"
    /\ stack[2].pc = "done"
    /\ stack[2].req.query.callback_token /= CallbackToken
    /\ stack[2].response.status = 200
    /\ Len(fetches) = 1

NotificationsBy(f) == {i \in 1..Len(notifications) : notifications[i].frame = f.id}

\* the frame has issued its outbound fetch, or is about to
ServedThroughConverter(f) ==
    \/ f.pc \in {"request", "fetching", "settled"}
    \/ f.pc = "done" /\ f.fetchResult.kind /= "none"

\* C18: one access served through the converter schedules exactly one
\* notification in all: the client's request without callback_token schedules
\* it once and before the outbound fetch, the converter's re-entry schedules
\* none; it stays scheduled when the fetch ends in 502, and a request answered
\* 403, 404 or 500 schedules none.
C18_OneNotificationPerAccess ==
    /\ Len(notifications) <= 1
    /\ \A f \in Frames :
           /\ f.id /= 1 => NotificationsBy(f) = {}
           /\ (f.req.query.callback_token = None /\ ServedThroughConverter(f))
                  => Cardinality(NotificationsBy(f)) = 1
           /\ (/\ f.req.query.callback_token = None
               /\ f.pc = "done"
               /\ f.response.status = 502)
                  => Cardinality(NotificationsBy(f)) = 1
           /\ (f.pc = "done" /\ f.response.status \in {403, 404, 500})
                  => NotificationsBy(f) = {}

C18_Witness ==
    /\ ClientAnswered
    /\ stack[1].response.status = 502
    /\ Len(callbackLog) = 1
    /\ callbackLog[1].response.status = 200
    /\ Len(notifications) = 1
    /\ notifications[1].frame = 1

\* neither a non-empty target nor a recognized bare flag is present
UserAgentDecides(req) ==
    /\ req.query.target \in {None, ""}
    /\ req.query.flags \cap RecognizedFlags = {}

\* C19: without explicit target and recognized flag the negotiated format is
\* that of the first row, in table order, whose keyword is a substring of the
\* lower-cased User-Agent: "SING-BOX clash" resolves to singbox, not clash,
\* and "Shadowrocket/1.2" to base64, in whatever letter case.
C19_FirstKeywordWins ==
    \A f \in Frames :
        (f.targetFormat /= None /\ UserAgentDecides(f.req)) =>
            LET ua == ToLowerCase(userAgentHeader(f.req)) IN
            /\ \A i \in 1..Len(uaMapping) :
                   (/\ Includes(ua, uaMapping[i][1])
                    /\ \A j \in 1..(i - 1) : ~Includes(ua, uaMapping[j][1]))
                   => f.targetFormat = uaMapping[i][2]
            /\ f.req.userAgent = UA_SingboxClash => f.targetFormat = "singbox"
            /\ f.req.userAgent = UA_Shadowrocket => f.targetFormat = "base64"

C19_Witness ==
    \E f \in Frames :
        /\ UserAgentDecides(f.req)
        /\ f.req.userAgent = UA_SingboxClash
        /\ f.targetFormat = "singbox"

\* the token the resolved mode compares the presented token with
ExpectedToken(f) ==
    IF Truthy(f.profileIdentifier) THEN store.settings.profileToken
    ELSE store.settings.mytoken

FailsTokenCheck(f) == ~Truthy(f.token) \/ f.token /= ExpectedToken(f)

FailsProfileCheck(f) ==
    /\ Truthy(f.profileIdentifier)
    /\ \/ MatchingProfiles(f.profileIdentifier) = {}
       \/ ~ProfileOf(f).enabled

\* the checks in their order: the first failing one decides the status, the
\* later stages answer with one of finalStatuses, and a request answered 403,
\* 404 or 500 has nothing composed or fetched
ChecksInOrder(finalStatuses) ==
    \A f \in Frames :
        f.pc = "done" =>
            /\ IF FailsTokenCheck(f) THEN f.response.status = 403
               ELSE IF FailsProfileCheck(f) THEN f.response.status = 404
               ELSE IF ~PresentNonBlank(f.effectiveSubConverter) THEN f.response.status = 500
               ELSE f.response.status \in finalStatuses
            /\ f.response.status \in {403, 404, 500} =>
                   /\ FetchesBy(f) = {}
                   /\ \A i \in 1..Len(composeCalls) : composeCalls[i].frame /= f.id

\* C20 as stated: token check (403), then profile lookup and enabled check
\* (404), then backend check (500), then negotiation, notification,
\* composition and conversion (200 or 502); nothing is composed or fetched
\* for a request that ends in 403, 404 or 500.
C20_ChecksInOrder200Or502 == ChecksInOrder({200, 502})

\* C20, amended: the same order, the later stages answering 200, the
\* converter's own success status, or 502.
C20_ChecksInOrder == ChecksInOrder((200..299) \cup {502})

C20_Witness ==
    \E f \in Frames :
        /\ f.pc = "done"
        /\ f.token = Tok_wrong
        /\ f.profileIdentifier = Id_missing
        /\ MatchingProfiles(Id_missing) = {}
        /\ ~PresentNonBlank(store.settings.subConverter)
        /\ f.response.status = 403
        /\ composeCalls = <<>>
        /\ fetches = <<>>

====
